---------------------------- MODULE Spec2Model ----------------------------
(***************************************************************************)
(* The capacity-recomputation pipeline of changer_capacity                  *)
(* (utils/facilities_capacity.py): recompute() and its stages               *)
(*   prepare_blocks_with_demand, prepare_services_cap_types,                *)
(*   merge_points_into_polygons_keep_polys, add_sanpin_ceiling,             *)
(*   attach_blocks, add_cap_max, allocate_relative_to_max.                  *)
(*                                                                          *)
(* Representation.                                                          *)
(*  - A table (GeoDataFrame) is a sequence of rows; a row is a function     *)
(*    from column names to values.  The row label (pandas index) is the     *)
(*    position: the caller resets the index (utils/geometry.py:15).         *)
(*  - A geometry is [gtype, cells, centroid, area]: the set of cells of a   *)
(*    small plane it covers, the cell of its centroid, its area in m2.      *)
(*    "a within b" is  a.cells \subseteq b.cells.                           *)
(*  - capacity, sanpin_cap, cap_max, new_capacity are kept in HALF persons  *)
(*    (201 is 100.5 persons), so that a base_count with a fraction is in    *)
(*    the model; demand is kept in thousandths (population *                *)
(*    demand_per_1000, before the division by 1000.0).                      *)
(*  - added_capacity, a float that is no multiple of a half, is the exact   *)
(*    fraction [n, d] of half persons.                                      *)
(*    Floats are exact: the rounding error of float division is not in     *)
(*    the model.                                                            *)
(*  - np.inf is Inf, pd.NA is "NA".  capacity and population are not null:  *)
(*    the caller imputes them (services/process.py:74).  A raised           *)
(*    exception ends the run: pc = "raised".                                *)
(***************************************************************************)
EXTENDS Integers, Sequences, FiniteSets, TLC

VARIABLES
    pc,           \* the statement of recompute() to run next
    err,          \* "none", or the exception that ended the run
    blocks_gdf,   \* argument: the zone table
    service_gdf,  \* argument: the facility table
    params,       \* arguments: demand_per_1000, base_count, m2_per_person
    gb, gf0, gf1, gf2, gf3, gf4, out   \* the locals of recompute()

vars == <<pc, err, blocks_gdf, service_gdf, params, gb, gf0, gf1, gf2, gf3, gf4, out>>

-----------------------------------------------------------------------------
(* Bounds and input sets *)

MaxFac == 3

\* np.inf (sanpin_cap of a facility without an area ceiling)
Inf == 1000000

\* p whole persons, in half persons
H(p) == 2 * p

Point(c) == [gtype |-> "Point", cells |-> {c}, centroid |-> c, area |-> 0]

Polygon(cs, ctr, a) == [gtype |-> "Polygon", cells |-> cs, centroid |-> ctr, area |-> a]

\* Two overlapping footprints, A (cells 1 and 2, 1500 m2) and B (cells 2
\* and 3, 402 m2), and points in A only, in both, and in neither
Points == { Point(1), Point(2), Point(4) }

Polygons == { Polygon({1, 2}, 1, 1500), Polygon({2, 3}, 3, 402) }

\* 100, 100.5 and 250 persons
Capacities == { H(100), H(100) + 1, H(250) }

Facilities ==
    [geometry : Points, capacity : Capacities]
        \cup [geometry : Polygons, capacity : { H(100), H(100) + 1 }]

ServiceTables == UNION { [1..n -> Facilities] : n \in 1..MaxFac }

Zone(cs, pop) == [cells |-> cs, population |-> pop]

\* one zone; two zones of different demand; two overlapping zones; a zone
\* without demand beside one whose demand is below 1, cells 2 and 3 in no zone
BlockTables ==
    { << Zone({1, 2, 3, 4}, 1000) >>,
      << Zone({1, 2}, 2000), Zone({3, 4}, 1000) >>,
      << Zone({1, 2, 4}, 1000), Zone({3, 4}, 2000) >>,
      << Zone({1}, 0), Zone({4}, 2) >> }

ParamSets ==
    [demand_per_1000 : {250}, base_count : {H(100), H(100) + 1}, m2_per_person : {5}]

\* the demand-sensitivity exponents k
KValues == {-1, 2}

-----------------------------------------------------------------------------
(* Helpers *)

Max(S) == CHOOSE x \in S : \A y \in S : y <= x

Min2(a, b) == IF a <= b THEN a ELSE b

MinOf(S) == CHOOSE x \in S : \A y \in S : x <= y

Abs(a) == IF a < 0 THEN -a ELSE a

\* df[col] = value on a row: the columns of new replace or extend those of r
SetCols(r, new) == new @@ r

\* df.drop(columns=cols) on a row
DropCols(r, cols) == [c \in (DOMAIN r) \ cols |-> r[c]]

\* the rows of t at the positions of S, in order (boolean-mask selection)
RECURSIVE Take(_, _, _)
Take(t, S, i) ==
    IF i > Len(t) THEN << >>
    ELSE (IF i \in S THEN << t[i] >> ELSE << >>) \o Take(t, S, i + 1)

\* gdf.geometry.geom_type
_geom_type_series(r) == r.geometry.gtype

\* abs(a - b) <= 1e-6 on values that are whole numbers of half persons
_isclose(a, b) == a = b

-----------------------------------------------------------------------------
(* 0) prepare_blocks_with_demand, prepare_services_cap_types *)

prepare_blocks_with_demand(blocks, demand_per_1000) ==
    [i \in DOMAIN blocks |->
        SetCols(blocks[i], [demand |-> blocks[i].population * demand_per_1000,
                            block_id |-> i - 1])]

_cap_type(v, base_count) == IF _isclose(v, base_count) THEN "base" ELSE "real"

prepare_services_cap_types(service, base_count) ==
    [i \in DOMAIN service |->
        SetCols(service[i], [geom_type |-> _geom_type_series(service[i]),
                             cap_type |-> _cap_type(service[i].capacity, base_count)])]

-----------------------------------------------------------------------------
(* 1) merge_points_into_polygons_keep_polys *)

Within(g, h) == g.cells \subseteq h.cells

\* gpd.sjoin(left, right, how="left", predicate="within"): the matched pairs
SJoinWithin(t, L, R) == { <<i, j>> \in L \X R : Within(t[i].geometry, t[j].geometry) }

PolyIdx(t) == { i \in DOMAIN t : t[i].geom_type = "Polygon" }

PointIdx(t) == { i \in DOMAIN t : t[i].geom_type = "Point" }

\* lines 84-88: the copy with keep / drop_reason
MergeTagged(fac_gdf) ==
    [i \in DOMAIN fac_gdf |->
        SetCols(fac_gdf[i], [geom_type |-> _geom_type_series(fac_gdf[i]),
                             keep |-> TRUE, drop_reason |-> "NA"])]

\* lines 95-100: pts_idx, the points within some polygon
CoveredIdx(gdf) ==
    { i \in PointIdx(gdf) : \E j \in PolyIdx(gdf) : <<i, j>> \in SJoinWithin(gdf, {i}, {j}) }

\* line 103: real_pts
RealPtsIdx(gdf) == { i \in CoveredIdx(gdf) : gdf[i].cap_type = "real" }

\* line 107: groupby(join_real["index_right"]) reindexes the key to
\* real_pts.index, which raises when a real point matched two polygons
\* (a repeated label in join_real)
MergeRaises(gdf) ==
    \E i \in RealPtsIdx(gdf) :
        Cardinality({ j \in PolyIdx(gdf) : <<i, j>> \in SJoinWithin(gdf, {i}, {j}) }) > 1

\* per_poly with the capacities of the real points of a polygon added up
PerPoly_Sum(gdf) ==
    LET join_real == SJoinWithin(gdf, RealPtsIdx(gdf), PolyIdx(gdf))
        hit == { p[2] : p \in join_real }
    IN  [j \in hit |->
            LET pts == { q[1] : q \in { q \in join_real : q[2] = j } }
                RECURSIVE total(_)
                total(S) == IF S = {} THEN 0
                            ELSE LET x == CHOOSE y \in S : TRUE
                                 IN  gdf[x].capacity + total(S \ {x})
            IN  total(pts)]

\* line 107: per_poly, the largest capacity of the real points of a polygon
PerPoly(gdf) ==
    LET join_real == SJoinWithin(gdf, RealPtsIdx(gdf), PolyIdx(gdf))
        hit == { p[2] : p \in join_real }
    IN  [j \in hit |-> Max({ gdf[p[1]].capacity : p \in { q \in join_real : q[2] = j } })]

\* lines 108-109: polys with the transferred capacities
PolysUpdated(gdf) ==
    LET per_poly == PerPoly(gdf)
    IN  [i \in DOMAIN gdf |->
            IF i \in DOMAIN per_poly
            THEN SetCols(gdf[i], [capacity |-> per_poly[i], cap_type |-> "real"])
            ELSE gdf[i]]

\* lines 112-113: gdf with the covered points flagged
GdfFlagged(gdf) ==
    [i \in DOMAIN gdf |->
        IF i \in CoveredIdx(gdf)
        THEN SetCols(gdf[i], [keep |-> FALSE, drop_reason |-> "covered_by_polygon"])
        ELSE gdf[i]]

\* lines 116-117: polygons, then the remaining points, then the rest
MergeConcat(gdf) ==
    LET upd == PolysUpdated(gdf)
        rest == (DOMAIN gdf) \ (PolyIdx(gdf) \cup PointIdx(gdf))
    IN  Take(upd, PolyIdx(gdf), 1)
        \o Take(gdf, PointIdx(gdf) \ CoveredIdx(gdf), 1)
        \o Take(gdf, rest, 1)

\* lines 120-124: the positional merge with gdf[[keep, drop_reason]]; both
\* sides hold keep and drop_reason, so pandas suffixes them _x and _y
MergeFlags(cat, flagged) ==
    [p \in DOMAIN cat |->
        SetCols(DropCols(cat[p], {"keep", "drop_reason"}),
                [keep_x |-> cat[p].keep, drop_reason_x |-> cat[p].drop_reason,
                 keep_y |-> flagged[p].keep, drop_reason_y |-> flagged[p].drop_reason])]

\* the Merger without the return of lines 97-98
merge_NoEarlyReturn(fac_gdf) ==
    LET gdf == MergeTagged(fac_gdf)
    IN  IF PointIdx(gdf) = {} \/ PolyIdx(gdf) = {} THEN gdf
        ELSE MergeFlags(MergeConcat(gdf), GdfFlagged(gdf))

\* the table merge_points_into_polygons_keep_polys returns (when it returns)
merge_points_into_polygons_keep_polys(fac_gdf) ==
    LET gdf == MergeTagged(fac_gdf)
    IN  IF PointIdx(gdf) = {} \/ PolyIdx(gdf) = {} THEN gdf
        ELSE IF CoveredIdx(gdf) = {} THEN gdf
        ELSE MergeFlags(MergeConcat(gdf), GdfFlagged(gdf))

-----------------------------------------------------------------------------
(* 2) add_sanpin_ceiling *)

\* np.floor(area / m2_per_person), persons, kept in half persons
SanpinOf(r, m2_per_person) ==
    IF r.geom_type = "Polygon" /\ r.cap_type = "base"
    THEN H(r.geometry.area \div m2_per_person)
    ELSE Inf

add_sanpin_ceiling(fac_gdf, m2_per_person) ==
    [i \in DOMAIN fac_gdf |->
        SetCols(fac_gdf[i], [geom_type |-> _geom_type_series(fac_gdf[i]),
                             sanpin_cap |-> SanpinOf(fac_gdf[i], m2_per_person)])]

-----------------------------------------------------------------------------
(* 3) attach_blocks *)

\* lines 151-153: the point itself, or the centroid of a polygon
AnchorCells(r) ==
    IF r.geom_type = "Polygon" THEN {r.geometry.centroid} ELSE r.geometry.cells

\* the zones the anchor of r is within, by position in gb
ZonesOf(r, blocks) == { z \in DOMAIN blocks : AnchorCells(r) \subseteq blocks[z].cells }

\* the rows sjoin(how="left") gives for the left row r: one per matched zone,
\* or one of NaN
RECURSIVE SjRowsOf(_, _, _)
SjRowsOf(r, blocks, z) ==
    IF z > Len(blocks) THEN << >>
    ELSE (IF z \in ZonesOf(r, blocks)
          THEN << [block_id |-> blocks[z].block_id, demand |-> blocks[z].demand, na |-> FALSE] >>
          ELSE << >>) \o SjRowsOf(r, blocks, z + 1)

\* line 156: sj, in the order of the left rows
RECURSIVE SJoinBlocks(_, _, _)
SJoinBlocks(gf, blocks, i) ==
    IF i > Len(gf) THEN << >>
    ELSE (IF ZonesOf(gf[i], blocks) = {}
          THEN << [block_id |-> 0, demand |-> 0, na |-> TRUE] >>
          ELSE SjRowsOf(gf[i], blocks, 1)) \o SJoinBlocks(gf, blocks, i + 1)

\* lines 157-158 raise ValueError when sj.values is longer than gf
AttachRaises(fac_gdf, blocks) == Len(SJoinBlocks(fac_gdf, blocks, 1)) # Len(fac_gdf)

\* lines 157-160: positional assignment, then fillna(-1) and fillna(0.0)
attach_blocks(fac_gdf, blocks) ==
    LET sj == SJoinBlocks(fac_gdf, blocks, 1)
    IN  [i \in DOMAIN fac_gdf |->
            SetCols(fac_gdf[i],
                    [geom_type |-> _geom_type_series(fac_gdf[i]),
                     block_id |-> IF sj[i].na THEN -1 ELSE sj[i].block_id,
                     demand |-> IF sj[i].na THEN 0 ELSE sj[i].demand])]

-----------------------------------------------------------------------------
(* 4) add_cap_max *)

CapMaxOf(r) ==
    LET base == r.capacity
        triple == 3 * base
        sanpin == IF "sanpin_cap" \in DOMAIN r THEN r.sanpin_cap ELSE Inf
    IN  IF r.cap_type = "base" THEN Min2(triple, sanpin) ELSE base

\* the table gdf holds after add_cap_max(gdf); the function returns gdf itself
add_cap_max(gdf) == [i \in DOMAIN gdf |-> SetCols(gdf[i], [cap_max |-> CapMaxOf(gdf[i])])]

-----------------------------------------------------------------------------
(* 5) allocate_relative_to_max *)

RECURSIVE Sum(_, _)
Sum(f, S) == IF S = {} THEN 0 ELSE LET x == CHOOSE y \in S : TRUE IN f[x] + Sum(f, S \ {x})

RECURSIVE GCD(_, _)
GCD(a, b) == IF b = 0 THEN a ELSE GCD(b, a % b)

RECURSIVE GCDAll(_, _, _)
GCDAll(f, S, g) ==
    IF S = {} THEN g ELSE LET x == CHOOSE y \in S : TRUE IN GCDAll(f, S \ {x}, GCD(g, Abs(f[x])))

\* the vector of fractions n[i]/d in lowest common terms
Reduce(v) ==
    LET g == GCDAll(v.n, DOMAIN v.n, v.d)
    IN  [n |-> [i \in DOMAIN v.n |-> v.n[i] \div g], d |-> v.d \div g]

\* math.exp(q / 4), in hundredths
ExpTable == << 14, 17, 22, 29, 37, 47, 61, 78, 100, 128, 165, 212, 272 >>

ExpQuarter(q) ==
    IF q < -8 THEN 14 ELSE IF q > 4 THEN 272 ELSE ExpTable[q + 9]

\* line 188: max(out[demand].max(), 1.0), in thousandths
DmaxGlobal(t) == Max({ t[i].demand : i \in DOMAIN t } \cup {1000})

\* lines 189, 206, 211: w_block / w_max = exp(k * demand_b / dmax) / exp(k),
\* in hundredths, the exponent taken to the quarter below
WeightRatio(k, demand_b, dmax) == ExpQuarter((4 * k * (demand_b - dmax)) \div dmax)

\* line 200: (cap_max - capacity).clip(lower=0)
Headroom(r) == IF r.cap_max - r.capacity < 0 THEN 0 ELSE r.cap_max - r.capacity

\* line 222: n/d half persons <= 1e-9 persons
WithinTol(n, d) == n <= d \div 500000000

\* line 226: add < head - 1e-12; n, h*d are whole and d < 2^31, so the
\* 1e-12 never decides
IsFree(n, h, d) == n < h * d

\* lines 220-229: clip to the headroom and hand the surplus to the free rows
RECURSIVE WaterFill(_, _, _)
WaterFill(head, add, passes) ==
    IF passes = 0 THEN add
    ELSE
      LET I == DOMAIN head
          over == [i \in I |-> add.n[i] - head[i] * add.d]
      IN  IF \A i \in I : WithinTol(over[i], add.d) THEN add
          ELSE
            LET surplus == Sum([i \in I |-> IF over[i] > 0 THEN over[i] ELSE 0], I)
                clip == [i \in I |-> Min2(add.n[i], head[i] * add.d)]
                free == { i \in I : IsFree(clip[i], head[i], add.d) }
                hf == Sum(head, free)
            IN  IF free = {} THEN [n |-> clip, d |-> add.d]
                ELSE WaterFill(head,
                         Reduce([n |-> [i \in I |->
                                          IF i \in free
                                          THEN clip[i] * hf + surplus * head[i]
                                          ELSE clip[i] * hf],
                                 d |-> add.d * hf]),
                         passes - 1)

\* add_total left at T, without the min of line 212
AddTotal_NoMin(head, ratio) ==
    LET I == DOMAIN head
    IN  Max({ head[i] : i \in I }) * ratio * Cardinality(I)

\* lines 211-212: add_total = min(T, total_head), in hundredths of half persons
AddTotal(head, ratio) ==
    LET I == DOMAIN head
        T == Max({ head[i] : i \in I }) * ratio * Cardinality(I)
    IN  Min2(T, 100 * Sum(head, I))

\* line 217: add = (head / head.sum()) * add_total, add_total in hundredths
InitialSplit(head, add_total) ==
    Reduce([n |-> [i \in DOMAIN head |-> head[i] * add_total],
            d |-> 100 * Sum(head, DOMAIN head)])

\* the group's add without the skip of lines 193-194 (demand_b <= 0)
ZoneAdd_NoDemandSkip(t, G, k, dmax) ==
    LET demand_b == t[MinOf(G)].demand
        idx_base == { i \in G : t[i].cap_type = "base" }
        head == [i \in idx_base |-> Headroom(t[i])]
        total_head == Sum(head, idx_base)
        skip == [n |-> [i \in {} |-> 0], d |-> 1]
    IN  IF idx_base = {} THEN skip
        ELSE IF total_head <= 0 THEN skip
        ELSE LET add_total == AddTotal(head, WeightRatio(k, demand_b, dmax))
             IN  IF add_total <= 0 THEN skip
                 ELSE WaterFill(head, InitialSplit(head, add_total), 12)

\* lines 192-229 for the group G of row positions: the add of its base rows,
\* or the empty function when the group is skipped
ZoneAdd(t, G, k, dmax) ==
    LET demand_b == t[MinOf(G)].demand
        idx_base == { i \in G : t[i].cap_type = "base" }
        head == [i \in idx_base |-> Headroom(t[i])]
        total_head == Sum(head, idx_base)
        skip == [n |-> [i \in {} |-> 0], d |-> 1]
    IN  IF demand_b <= 0 THEN skip
        ELSE IF idx_base = {} THEN skip
        ELSE IF total_head <= 0 THEN skip
        ELSE LET add_total == AddTotal(head, WeightRatio(k, demand_b, dmax))
             IN  IF add_total <= 0 THEN skip
                 ELSE WaterFill(head, InitialSplit(head, add_total), 12)

\* round(x, 0) of a/b >= 0: to the nearest whole number, halves to the even one
RoundHalfEven(a, b) ==
    LET q == a \div b
        r == a % b
    IN  IF 2 * r < b THEN q
        ELSE IF 2 * r > b THEN q + 1
        ELSE IF q % 2 = 0 THEN q ELSE q + 1

\* np.isclose(a, b): abs(a - b) <= 1e-8 + 1e-5 * abs(b), a and b whole
\* numbers of half persons
NpIsClose(a, b) == Abs(a - b) <= Abs(b) \div 100000

\* every base row given the add of the whole group
AddedOf_ZoneTotal(add, i) == [n |-> Sum(add.n, DOMAIN add.n), d |-> add.d]

\* line 232: the share of row i in the add of its group
AddedOf(add, i) == [n |-> add.n[i], d |-> add.d]

\* lines 232-234 on one base row of a group that was not skipped
Applied(r, a) ==
    LET new_cap == H(RoundHalfEven(r.capacity * a.d + a.n, 2 * a.d))
    IN  SetCols(r, [added_capacity |-> a,
                    new_capacity |-> new_cap,
                    saturated |-> NpIsClose(new_cap, r.cap_max)])

\* lines 179-183
AllocInit(r) ==
    SetCols(r, [new_capacity |-> r.capacity,
                added_capacity |-> [n |-> 0, d |-> 1],
                saturated |-> FALSE,
                unmet_block_demand |-> 0])

allocate_relative_to_max(gdf, k) ==
    LET out0 == [i \in DOMAIN gdf |-> AllocInit(gdf[i])]
        out1 == IF \A i \in DOMAIN out0 : "cap_max" \in DOMAIN out0[i]
                THEN out0 ELSE add_cap_max(out0)
        dmax == DmaxGlobal(out1)
        group(i) == { j \in DOMAIN out1 : out1[j].block_id = out1[i].block_id }
    IN  [i \in DOMAIN out1 |->
            LET add == ZoneAdd(out1, group(i), k, dmax)
            IN  IF i \in DOMAIN add.n THEN Applied(out1[i], AddedOf(add, i))
                ELSE out1[i]]

-----------------------------------------------------------------------------
(* 6) recompute: one action per statement *)

Init ==
    /\ pc = "prepare_blocks"
    /\ err = "none"
    /\ blocks_gdf \in BlockTables
    /\ service_gdf \in ServiceTables
    /\ params \in ParamSets
    /\ gb = << >> /\ gf0 = << >> /\ gf1 = << >> /\ gf2 = << >>
    /\ gf3 = << >> /\ gf4 = << >> /\ out = << >>

\* line 255
PrepareBlocks ==
    /\ pc = "prepare_blocks"
    /\ gb' = prepare_blocks_with_demand(blocks_gdf, params.demand_per_1000)
    /\ pc' = "prepare_services"
    /\ UNCHANGED <<err, blocks_gdf, service_gdf, params, gf0, gf1, gf2, gf3, gf4, out>>

\* line 258
PrepareServices ==
    /\ pc = "prepare_services"
    /\ gf0' = prepare_services_cap_types(service_gdf, params.base_count)
    /\ pc' = "merge"
    /\ UNCHANGED <<err, blocks_gdf, service_gdf, params, gb, gf1, gf2, gf3, gf4, out>>

\* line 261
Merge ==
    /\ pc = "merge"
    /\ IF CoveredIdx(MergeTagged(gf0)) # {} /\ MergeRaises(MergeTagged(gf0))
       THEN /\ err' = "ValueError"
            /\ pc' = "raised"
            /\ gf1' = gf1
       ELSE /\ gf1' = merge_points_into_polygons_keep_polys(gf0)
            /\ pc' = "sanpin"
            /\ err' = err
    /\ UNCHANGED <<blocks_gdf, service_gdf, params, gb, gf0, gf2, gf3, gf4, out>>

\* line 264
AddSanpinCeiling ==
    /\ pc = "sanpin"
    /\ gf2' = add_sanpin_ceiling(gf1, params.m2_per_person)
    /\ pc' = "attach"
    /\ UNCHANGED <<err, blocks_gdf, service_gdf, params, gb, gf0, gf1, gf3, gf4, out>>

\* line 267
AttachBlocks ==
    /\ pc = "attach"
    /\ IF AttachRaises(gf2, gb)
       THEN /\ err' = "ValueError"
            /\ pc' = "raised"
            /\ gf3' = gf3
       ELSE /\ gf3' = attach_blocks(gf2, gb)
            /\ pc' = "cap_max"
            /\ err' = err
    /\ UNCHANGED <<blocks_gdf, service_gdf, params, gb, gf0, gf1, gf2, gf4, out>>

\* line 270: add_cap_max writes cap_max into its argument and returns it, so
\* gf3 and gf4 are one table
AddCapMax ==
    /\ pc = "cap_max"
    /\ gf3' = add_cap_max(gf3)
    /\ gf4' = gf3'
    /\ pc' = "allocate"
    /\ UNCHANGED <<err, blocks_gdf, service_gdf, params, gb, gf0, gf1, gf2, out>>

\* lines 273-274; k, which nothing reads before, is drawn here
Allocate ==
    /\ pc = "allocate"
    /\ \E k \in KValues : out' = allocate_relative_to_max(gf4, k)
    /\ pc' = "done"
    /\ UNCHANGED <<err, blocks_gdf, service_gdf, params, gb, gf0, gf1, gf2, gf3, gf4>>

Next ==
    \/ PrepareBlocks
    \/ PrepareServices
    \/ Merge
    \/ AddSanpinCeiling
    \/ AttachBlocks
    \/ AddCapMax
    \/ Allocate

Spec == Init /\ [][Next]_vars

-----------------------------------------------------------------------------
(* Properties *)

Done == pc = "done"

\* the largest demand on a row of t
RowDemandMax(t) == Max({ t[i].demand : i \in DOMAIN t })

\* max(cap_max - capacity, 0), as the specification defines the headroom
SpecHeadroom(r) == IF r.cap_max > r.capacity THEN r.cap_max - r.capacity ELSE 0

\* C1: for every row of the table recompute returns,
\* capacity <= new_capacity <= cap_max.
C1_CapacityWithinCeiling ==
    Done => \A i \in DOMAIN out :
                /\ out[i].capacity <= out[i].new_capacity
                /\ out[i].new_capacity <= out[i].cap_max

\* C2: added_capacity > 0 only on a base-type facility attached to a zone
\* of positive demand; a real-type facility, an unattached one and one whose
\* demand is <= 0 have added_capacity = 0 and new_capacity = capacity.
C2_OnlyEligibleRowsGrow ==
    Done => \A i \in DOMAIN out :
                /\ out[i].added_capacity.n > 0 =>
                       /\ out[i].cap_type = "base"
                       /\ out[i].block_id # -1
                       /\ out[i].demand > 0
                /\ (out[i].cap_type = "real" \/ out[i].block_id = -1 \/ out[i].demand <= 0) =>
                       /\ out[i].added_capacity.n = 0
                       /\ out[i].new_capacity = out[i].capacity

\* a table that holds a grown row, a real row, an unattached base row with
\* headroom and an attached base row of a zone without demand
C2_Witness ==
    /\ Done
    /\ \E i \in DOMAIN out : out[i].added_capacity.n > 0
    /\ \E i \in DOMAIN out : /\ out[i].cap_type = "base" /\ SpecHeadroom(out[i]) > 0
                             /\ out[i].block_id = -1
    /\ \E i \in DOMAIN out : /\ out[i].cap_type = "base" /\ SpecHeadroom(out[i]) > 0
                             /\ out[i].block_id # -1 /\ out[i].demand = 0

RECURSIVE LCMAll(_, _)
LCMAll(D, l) ==
    IF D = {} THEN l
    ELSE LET x == CHOOSE y \in D : TRUE IN LCMAll(D \ {x}, (l * x) \div GCD(l, x))

\* the base rows of the zone b
ZoneBase(t, b) == { i \in DOMAIN t : t[i].block_id = b /\ t[i].cap_type = "base" }

\* sum of added_capacity over S  <=  sum of headroom over S
AddedWithinHeadroom(t, S) ==
    LET L == LCMAll({ t[i].added_capacity.d : i \in S }, 1)
    IN  Sum([i \in S |-> t[i].added_capacity.n * (L \div t[i].added_capacity.d)], S)
            <= L * Sum([i \in S |-> SpecHeadroom(t[i])], S)

\* C3: in every zone the added_capacity of its base facilities sums to at
\* most the sum of their headrooms.
C3_ZoneSumWithinHeadroom ==
    Done => \A b \in { out[i].block_id : i \in DOMAIN out } :
                AddedWithinHeadroom(out, ZoneBase(out, b))

\* a zone whose base rows differ in headroom and whose budget is cut to
\* the total headroom, every row growing by all of its headroom
C3_Witness ==
    /\ Done
    /\ \E b \in { out[i].block_id : i \in DOMAIN out } :
          /\ Cardinality(ZoneBase(out, b)) >= 2
          /\ \E i, j \in ZoneBase(out, b) : SpecHeadroom(out[i]) > SpecHeadroom(out[j])
          /\ \A i \in ZoneBase(out, b) :
                out[i].added_capacity.n = SpecHeadroom(out[i]) * out[i].added_capacity.d

\* C4: after add_sanpin_ceiling and add_cap_max every facility has
\* cap_max >= capacity.
C4_CapMaxAtLeastCapacity ==
    gf4 # << >> => \A i \in DOMAIN gf4 : gf4[i].cap_max >= gf4[i].capacity

\* the points of the table t that lie within a polygon of t
CoveredPoints(t) ==
    { i \in DOMAIN t : /\ t[i].geometry.gtype = "Point"
                       /\ \E j \in DOMAIN t : /\ t[j].geometry.gtype = "Polygon"
                                              /\ t[i].geometry.cells \subseteq t[j].geometry.cells }

RealCoveredBy(j) ==
    { i \in DOMAIN gf0 : /\ gf0[i].geometry.gtype = "Point"
                         /\ gf0[i].cap_type = "real"
                         /\ gf0[i].geometry.cells \subseteq gf0[j].geometry.cells }

\* the row of the polygon j of gf0 in the merged table: polygons come first
PolyRank(j) == Cardinality({ p \in DOMAIN gf0 : gf0[p].geometry.gtype = "Polygon" /\ p <= j })

MultiZone(t) == { i \in DOMAIN t : Cardinality(ZonesOf(t[i], gb)) > 1 }

AttachCalled == gf2 # << >> /\ pc \in {"cap_max", "allocate", "done", "raised"}

\* C7: with an anchor in more than one zone attach_blocks completes and
\* gives every facility one block_id and demand: those of the first zone
\* that matches, or -1 and 0.0.
C7_FirstMatchOnOverlap ==
    (AttachCalled /\ MultiZone(gf2) # {}) =>
        /\ err = "none"
        /\ Len(gf3) = Len(gf2)
        /\ \A i \in DOMAIN gf3 :
              LET Z == ZonesOf(gf2[i], gb)
                  first == CHOOSE z \in Z : \A y \in Z : z <= y
              IN  IF Z = {} THEN gf3[i].block_id = -1 /\ gf3[i].demand = 0
                  ELSE /\ gf3[i].block_id = gb[first].block_id
                       /\ gf3[i].demand = gb[first].demand

\* C8: no stage changes the table it is given.
C8_StagesLeaveInputUnchanged ==
    [][ /\ blocks_gdf' = blocks_gdf
        /\ service_gdf' = service_gdf
        /\ pc = "merge" => gf0' = gf0
        /\ pc = "sanpin" => gf1' = gf1
        /\ pc = "attach" => (gf2' = gf2 /\ gb' = gb)
        /\ pc = "cap_max" => gf3' = gf3
        /\ pc = "allocate" => gf4' = gf4 ]_vars

\* C9: on a table without a point within a polygon the Merger returns the
\* rows as they are, in order, with keep = True and no drop_reason, and a
\* second run on the result returns the result.
C9_MergerIdempotent ==
    (gf1 # << >> /\ CoveredPoints(gf0) = {}) =>
        /\ Len(gf1) = Len(gf0)
        /\ \A i \in DOMAIN gf1 :
              /\ DOMAIN gf1[i] = (DOMAIN gf0[i]) \cup {"keep", "drop_reason"}
              /\ \A c \in DOMAIN gf0[i] : gf1[i][c] = gf0[i][c]
              /\ gf1[i].keep = TRUE
              /\ gf1[i].drop_reason = "NA"
        /\ merge_points_into_polygons_keep_polys(gf1) = gf1

\* points and polygons in one table, no point within a polygon
C9_Witness ==
    /\ gf1 # << >>
    /\ CoveredPoints(gf0) = {}
    /\ \E i, j \in DOMAIN gf0 : /\ gf0[i].geometry.gtype = "Point"
                                /\ gf0[j].geometry.gtype = "Polygon"
                                /\ i < j

\* the base rows with headroom of the zones whose demand is the largest
\* demand and at least 1
TopZoneRows ==
    { i \in DOMAIN out : /\ out[i].cap_type = "base"
                         /\ out[i].demand = RowDemandMax(out)
                         /\ out[i].demand >= 1000
                         /\ SpecHeadroom(out[i]) > 0 }

\* C10: in a zone whose demand is the global maximum and >= 1
\* every base facility with headroom gets its full headroom and ends with
\* new_capacity = cap_max, saturated.
C10_TopZoneSaturated ==
    Done => \A i \in TopZoneRows :
                /\ out[i].added_capacity.n = SpecHeadroom(out[i]) * out[i].added_capacity.d
                /\ out[i].new_capacity = out[i].cap_max
                /\ out[i].saturated = TRUE

\* the zones of t that the loop of allocate_relative_to_max does not skip
ProcessedZones(t) ==
    { b \in { t[i].block_id : i \in DOMAIN t } :
        /\ \A i \in DOMAIN t : t[i].block_id = b => t[i].demand > 0
        /\ ZoneBase(t, b) # {}
        /\ \E i \in ZoneBase(t, b) : SpecHeadroom(t[i]) > 0 }

\* the proportional split of the zone b of t under k: headroom_i /
\* total_headroom * min(T, total_headroom)
ZoneSplit(t, b, k) ==
    LET S == ZoneBase(t, b)
        head == [i \in S |-> SpecHeadroom(t[i])]
        demand_b == t[CHOOSE i \in S : TRUE].demand
    IN  InitialSplit(head, AddTotal(head, WeightRatio(k, demand_b, DmaxGlobal(t))))

\* C11: in every zone the loop processes the initial proportional split
\* gives no base facility more than its headroom, so the clip-and-
\* redistribute loop changes nothing and the added_capacity of every base
\* facility of the zone is its share of the initial split.
C11_InitialSplitIsFinal ==
    Done => \E k \in KValues : \A b \in ProcessedZones(out) :
                LET S == ZoneBase(out, b)
                    head == [i \in S |-> SpecHeadroom(out[i])]
                    split == ZoneSplit(out, b, k)
                IN  /\ \A i \in S : split.n[i] <= head[i] * split.d
                    /\ WaterFill(head, split, 12) = split
                    /\ \A i \in S : out[i].added_capacity = [n |-> split.n[i], d |-> split.d]

\* a processed zone of several base facilities whose budget is below the
\* total headroom: each is given a part of its headroom
C11_Witness ==
    /\ Done
    /\ \E b \in ProcessedZones(out) :
          /\ Cardinality(ZoneBase(out, b)) >= 2
          /\ \A i \in ZoneBase(out, b) :
                /\ out[i].added_capacity.n > 0
                /\ out[i].added_capacity.n < SpecHeadroom(out[i]) * out[i].added_capacity.d

=============================================================================
